---- MODULE Spec2Model ----
(***************************************************************************)
(* Card-target tracker (src/app.py): the allowed three-month window, the  *)
(* retention cleanup, the dashboard aggregation, the month-end annotation  *)
(* and the transaction-entry handlers (add form, history save) over the    *)
(* two worksheets "cards" and "tx".                                        *)
(*                                                                         *)
(* Text is a sequence of one-character strings, so that formatting,        *)
(* parsing, slicing and lexicographic comparison are computed, not         *)
(* assumed.                                                                *)
(***************************************************************************)
EXTENDS Integers, Sequences, FiniteSets, TLC

VARIABLES today, months, sel_month, month_end,
          tx_df, tx_df_clean, cards_df, dash,
          cards_ws, tx_ws, last, written, pc, pending, seen

vars == <<today, months, sel_month, month_end,
          tx_df, tx_df_clean, cards_df, dash,
          cards_ws, tx_ws, last, written, pc, pending, seen>>

windowVars == <<today, months, sel_month, month_end>>
frameVars == <<tx_df, tx_df_clean, cards_df, dash>>
sessionVars == <<cards_ws, tx_ws, last, written>>
storeVars == <<pc, pending, seen>>

\* Value of a variable a specification does not use.
Unused == <<>>

----------------------------------------------------------------------------
(* Bounds of the model *)

\* evaluation dates range over the years 2022 .. 2022 + YearSpan
YearSpan == 4

\* rows of a transaction frame handed to cleanup_tx
MaxRows == 3

\* cards and transactions handed to compute_dashboard
MaxCards == 2
MaxDashTx == 2

\* interactions (form submissions, saves) of a session
MaxOps == 2

----------------------------------------------------------------------------
(* Text *)

Digits == <<"0", "1", "2", "3", "4", "5", "6", "7", "8", "9">>

DigitSet == {Digits[i] : i \in 1..10}

DigitVal(c) == (CHOOSE i \in 1..10 : Digits[i] = c) - 1

IsDigits(s) == Len(s) > 0 /\ \A i \in 1..Len(s) : s[i] \in DigitSet

\* str(n) of a non-negative integer
RECURSIVE Dec(_)
Dec(n) == IF n < 10 THEN <<Digits[n + 1]>>
          ELSE Dec(n \div 10) \o <<Digits[(n % 10) + 1]>>

\* str(n) of any integer
StrInt(n) == IF n < 0 THEN <<"-">> \o Dec(0 - n) ELSE Dec(n)

\* f"{n:0<w>d}" of a non-negative integer
RECURSIVE ZeroPad(_, _)
ZeroPad(s, w) == IF Len(s) >= w THEN s ELSE ZeroPad(<<"0">> \o s, w)

\* int(s) of a digit string
RECURSIVE ParseInt(_)
ParseInt(s) == IF Len(s) = 0 THEN 0
               ELSE 10 * ParseInt(SubSeq(s, 1, Len(s) - 1)) + DigitVal(s[Len(s)])

\* s.split(sep): the pieces of s between occurrences of the character sep
RECURSIVE Split(_, _)
Split(s, sep) ==
    IF \A i \in 1..Len(s) : s[i] # sep THEN <<s>>
    ELSE LET k == CHOOSE i \in 1..Len(s) :
                      s[i] = sep /\ \A j \in 1..(i - 1) : s[j] # sep
         IN <<SubSeq(s, 1, k - 1)>> \o Split(SubSeq(s, k + 1, Len(s)), sep)

\* the digits of a number in groups of three, as f"{x:,}" separates them
RECURSIVE Group(_)
Group(s) == IF Len(s) <= 3 THEN s
            ELSE Group(SubSeq(s, 1, Len(s) - 3)) \o <<",">>
                 \o SubSeq(s, Len(s) - 2, Len(s))

\* f"{x:,}"
FormatThousands(x) == IF x < 0 THEN <<"-">> \o Group(Dec(0 - x)) ELSE Group(Dec(x))

\* the code point of a character; CHECK and CROSS stand for the two status
\* marks U+2705 and U+274C
Ord(c) ==
    CASE c \in DigitSet -> 48 + DigitVal(c)
      [] c = "," -> 44
      [] c = "-" -> 45
      [] c = "/" -> 47
      [] c = "A" -> 65
      [] c = "B" -> 66
      [] c = "C" -> 67
      [] c = "c" -> 99
      [] c = "x" -> 120
      [] c = "CHECK" -> 9989
      [] c = "CROSS" -> 10060

\* a < b for texts, as Python compares str
RECURSIVE TextLess(_, _)
TextLess(a, b) ==
    IF Len(b) = 0 THEN FALSE
    ELSE IF Len(a) = 0 THEN TRUE
    ELSE IF a[1] # b[1] THEN Ord(a[1]) < Ord(b[1])
    ELSE TextLess(Tail(a), Tail(b))

\* s[:n]
Prefix(s, n) == SubSeq(s, 1, IF Len(s) < n THEN Len(s) ELSE n)

----------------------------------------------------------------------------
(* Calendar: datetime.date, calendar.monthrange, dateutil.relativedelta *)

Years == 2022..(2022 + YearSpan)

isleap(year) == year % 4 = 0 /\ (year % 100 # 0 \/ year % 400 = 0)

mdays == <<31, 28, 31, 30, 31, 30, 31, 31, 30, 31, 30, 31>>

\* calendar.monthrange(year, mon)[1]
monthrange(year, mon) == mdays[mon] + (IF mon = 2 /\ isleap(year) THEN 1 ELSE 0)

date(y, m, d) == [year |-> y, month |-> m, day |-> d]

IsDate(y, m, d) == /\ y \in 1..9999
                   /\ m \in 1..12
                   /\ d \in 1..monthrange(y, m)

RECURSIVE DaysBeforeMonth(_, _)
DaysBeforeMonth(year, mon) ==
    IF mon = 1 THEN 0
    ELSE DaysBeforeMonth(year, mon - 1) + monthrange(year, mon - 1)

\* date.toordinal()
toordinal(d) ==
    LET y == d.year - 1
    IN y * 365 + (y \div 4) - (y \div 100) + (y \div 400)
       + DaysBeforeMonth(d.year, d.month) + d.day

\* date.weekday(): Monday is 0, Sunday is 6
weekday(d) == (toordinal(d) + 6) % 7

\* relativedelta that wraps the month but leaves the year alone
relativedelta_months_no_carry(d, n) ==
    LET m0 == d.month + n
        m == IF m0 > 12 THEN m0 - 12 ELSE IF m0 < 1 THEN m0 + 12 ELSE m0
        last_day == monthrange(d.year, m)
    IN date(d.year, m, IF d.day < last_day THEN d.day ELSE last_day)

\* d + relativedelta(months=n), for n in {-1, +1}
relativedelta_months(d, n) ==
    LET m0 == d.month + n
        y == IF m0 > 12 THEN d.year + 1 ELSE IF m0 < 1 THEN d.year - 1 ELSE d.year
        m == IF m0 > 12 THEN m0 - 12 ELSE IF m0 < 1 THEN m0 + 12 ELSE m0
        last_day == monthrange(y, m)
    IN date(y, m, IF d.day < last_day THEN d.day ELSE last_day)

\* date.isoformat()
isoformat(d) == ZeroPad(Dec(d.year), 4) \o <<"-">> \o ZeroPad(Dec(d.month), 2)
                \o <<"-">> \o ZeroPad(Dec(d.day), 2)

----------------------------------------------------------------------------
(* Business logic *)

ym(d) == ZeroPad(Dec(d.year), 4) \o <<"-">> \o ZeroPad(Dec(d.month), 2)

allowed_months(t) ==
    LET this_m == date(t.year, t.month, 1)
        m_prev == relativedelta_months(this_m, -1)
        m_next == relativedelta_months(this_m, 1)
    IN <<ym(m_prev), ym(this_m), ym(m_next)>>

(* A worksheet cell read by get_all_records is a text or a number. *)
Str(s) == [t |-> "str", v |-> s]
Num(n) == [t |-> "int", v |-> n]

\* Series.astype(str) of one cell
astype_str(c) == IF c.t = "int" THEN Str(StrInt(c.v)) ELSE c

\* the frame with its month column cast to text (line 64)
month_astype_str(df) == [i \in 1..Len(df) |-> [df[i] EXCEPT !.month = astype_str(@)]]

\* Series.isin(allowed) of one cell
isin(c, allowed) == \E k \in 1..Len(allowed) : c = Str(allowed[k])

\* df[mask]: the rows that pass, in their order
RECURSIVE Filter(_, _)
Filter(df, mask) ==
    IF Len(df) = 0 THEN <<>>
    ELSE (IF mask[1] THEN <<df[1]>> ELSE <<>>)
         \o Filter(Tail(df), Tail(mask))

\* cleanup_tx that forgets the next month
cleanup_tx_two_months(df, allowed) ==
    IF Len(df) = 0 THEN df
    ELSE LET cast == month_astype_str(df)
         IN Filter(cast, [i \in 1..Len(cast) |->
                             isin(cast[i].month, SubSeq(allowed, 1, 2))])

cleanup_tx(df, allowed) ==
    IF Len(df) = 0 THEN df
    ELSE LET cast == month_astype_str(df)
         IN Filter(cast, [i \in 1..Len(cast) |-> isin(cast[i].month, allowed)])

\* pd.to_numeric(x, errors="coerce").fillna(0).astype(int) of one cell
to_int(c) ==
    IF c.t = "int" THEN c.v
    ELSE IF IsDigits(c.v) THEN ParseInt(c.v)
    ELSE IF Len(c.v) > 1 /\ c.v[1] = "-" /\ IsDigits(Tail(c.v))
         THEN 0 - ParseInt(Tail(c.v))
    ELSE 0

\* the two status marks
Met == <<"CHECK">>
Unmet == <<"CROSS">>

RECURSIVE SumAmount(_, _)
SumAmount(tx_m, card_id) ==
    IF Len(tx_m) = 0 THEN 0
    ELSE (IF tx_m[1].card_id = card_id THEN to_int(tx_m[1].amount) ELSE 0)
         + SumAmount(Tail(tx_m), card_id)

\* tx_m.groupby("card_id")["amount"].sum(): one entry per card_id of tx_m
groupby_sum(tx_m) ==
    { [card_id |-> id, spent |-> SumAmount(tx_m, id)]
      : id \in { tx_m[i].card_id : i \in 1..Len(tx_m) } }

\* active_cards.merge(spent, on="card_id", how="left") with spent.fillna(0):
\* a row per match of each left row, or one row without a match
RECURSIVE merge_left(_, _)
merge_left(left, spent) ==
    IF Len(left) = 0 THEN <<>>
    ELSE LET c == left[1]
             hits == { g \in spent : g.card_id = c.card_id }
             RECURSIVE Rows(_)
             Rows(H) == IF H = {} THEN <<>>
                        ELSE LET g == CHOOSE g \in H : TRUE
                             IN <<[card |-> c, spent |-> g.spent]>>
                                \o Rows(H \ {g})
         IN (IF hits = {} THEN <<[card |-> c, spent |-> 0]>> ELSE Rows(hits))
            \o merge_left(Tail(left), spent)

\* dashboard_row whose effective target is not clipped at 0
dashboard_row_no_clip(r) ==
    LET monthly_target == to_int(r.card.monthly_target)
        fixed_cost == to_int(r.card.fixed_cost)
        effective_target == monthly_target - fixed_cost
        left == effective_target - r.spent
        remaining == IF left < 0 THEN 0 ELSE left
    IN [card_name |-> r.card.card_name,
        target_fmt |-> FormatThousands(monthly_target),
        fixed_fmt |-> FormatThousands(fixed_cost),
        effective_fmt |-> FormatThousands(effective_target),
        spent_fmt |-> FormatThousands(r.spent),
        remaining_fmt |-> FormatThousands(remaining),
        status |-> IF r.spent >= effective_target THEN Met ELSE Unmet]

\* lines 100-111: the computed and the formatted columns of one merged row
dashboard_row(r) ==
    LET monthly_target == to_int(r.card.monthly_target)
        fixed_cost == to_int(r.card.fixed_cost)
        diff == monthly_target - fixed_cost
        effective_target == IF diff < 0 THEN 0 ELSE diff
        left == effective_target - r.spent
        remaining == IF left < 0 THEN 0 ELSE left
    IN [card_name |-> r.card.card_name,
        target_fmt |-> FormatThousands(monthly_target),
        fixed_fmt |-> FormatThousands(fixed_cost),
        effective_fmt |-> FormatThousands(effective_target),
        spent_fmt |-> FormatThousands(r.spent),
        remaining_fmt |-> FormatThousands(remaining),
        status |-> IF r.spent >= effective_target THEN Met ELSE Unmet]

\* the sort key of line 116: status, then the remaining column, then name
SortKeyLess(a, b) ==
    \/ TextLess(a.status, b.status)
    \/ /\ a.status = b.status
       /\ \/ TextLess(a.remaining_fmt, b.remaining_fmt)
          \/ /\ a.remaining_fmt = b.remaining_fmt
             /\ TextLess(a.card_name, b.card_name)

\* DataFrame.sort_values on several columns: a stable sort
RECURSIVE sort_values(_)
sort_values(rows) ==
    IF Len(rows) <= 1 THEN rows
    ELSE LET rest == sort_values(SubSeq(rows, 1, Len(rows) - 1))
             x == rows[Len(rows)]
             k == Cardinality({ i \in 1..Len(rest) : ~SortKeyLess(x, rest[i]) })
         IN SubSeq(rest, 1, k) \o <<x>> \o SubSeq(rest, k + 1, Len(rest))

compute_dashboard(cards, tx, month) ==
    LET active_cards == SelectSeq(cards, LAMBDA c : c.active = TRUE)
        tx_m == IF Len(tx) = 0 THEN <<>>
                ELSE SelectSeq(tx, LAMBDA t : t.month = Str(month))
        spent == IF Len(tx_m) = 0 THEN {} ELSE groupby_sum(tx_m)
        out == merge_left(active_cards, spent)
    IN IF Len(active_cards) = 0 THEN <<>>
       ELSE sort_values([i \in 1..Len(out) |-> dashboard_row(out[i])])

(* The tabular store: a worksheet is its header row and its data rows. *)
TxColumns == <<"tx_id", "date", "month", "card_id", "amount", "item">>

\* ws.get_all_records(): the rows under the header row, none without one
ws_to_df(ws) == IF ws.header = <<>> THEN <<>> ELSE ws.rows

\* ws.append_row(row): the row goes under the last row
append_row(ws, row) == [ws EXCEPT !.rows = Append(@, row)]

\* ws.clear()
ws_clear(ws) == [header |-> <<>>, rows |-> <<>>]

\* ws.update(values): the values overwrite the sheet from its first cell;
\* rows below them stay
ws_update(ws, columns, rows) ==
    [header |-> columns,
     rows |-> rows \o SubSeq(ws.rows, Len(rows) + 1, Len(ws.rows))]

\* both store calls of update_ws_from_df, the first before the second
update_ws_from_df(ws, df) == ws_update(ws_clear(ws), TxColumns, df)

\* float("nan") and None: unequal to every text
NaN == <<"NaN">>
None == <<"None">>

\* str(x) of a card_id cell
card_id_astype_str(id) == IF id = NaN THEN <<"n", "a", "n">> ELSE id

\* dict(zip(keys, values)).get(k): the value of the last position holding k
DictHas(keys, k) == \E i \in 1..Len(keys) : keys[i] = k
DictGet(keys, values, k) ==
    values[CHOOSE i \in 1..Len(keys) :
               keys[i] = k /\ \A j \in (i + 1)..Len(keys) : keys[j] # k]

\* list(dict.keys()): each key once, at its first position
DictKeys(keys) ==
    SelectSeq([i \in 1..Len(keys) |->
                  IF \E j \in 1..(i - 1) : keys[j] = keys[i] THEN None ELSE keys[i]],
              LAMBDA k : k # None)

Column(df, f) == [i \in 1..Len(df) |-> df[i][f]]

\* the script's start, lines 127-156: read the sheets, clean up, persist
\* the cleaned frame when rows were dropped
startup(ws, allowed) ==
    LET df == ws_to_df(ws)
        clean == cleanup_tx(df, allowed)
        cast == IF Len(df) = 0 THEN df ELSE month_astype_str(df)
    IN IF Len(clean) # Len(df)
       THEN [tx_ws |-> update_ws_from_df(ws, clean), tx_df |-> clean]
       ELSE [tx_ws |-> ws, tx_df |-> cast]

\* the texts pd.to_datetime reads as NaT
nat_strings == { <<>>, <<"N", "a", "T">>, <<"n", "a", "n">> }

\* pd.to_datetime(s) of a year-month-day text with "-" or "/" between the
\* numbers: the date, or raises
parse_ymd(s) ==
    LET sep == IF \E i \in 1..Len(s) : s[i] = "-" THEN "-" ELSE "/"
        parts == Split(s, sep)
    IN IF /\ Len(parts) = 3
          /\ \A i \in 1..3 : IsDigits(parts[i])
          /\ Len(parts[1]) = 4 /\ Len(parts[2]) <= 2 /\ Len(parts[3]) <= 2
          /\ IsDate(ParseInt(parts[1]), ParseInt(parts[2]), ParseInt(parts[3]))
       THEN [raises |-> FALSE,
             value |-> date(ParseInt(parts[1]), ParseInt(parts[2]),
                            ParseInt(parts[3]))]
       ELSE [raises |-> TRUE, value |-> date(1, 1, 1)]

\* normalize_date, lines 269-273: NaT has a date() and an isoformat() too,
\* so a text read as NaT raises nothing and comes back as the text "NaT"
normalize_date(s) ==
    IF s \in nat_strings THEN <<"N", "a", "T">>
    ELSE IF parse_ymd(s).raises THEN None
    ELSE isoformat(parse_ymd(s).value)

\* lines 179-184: the active cards and the two dictionaries over them
active_cards(cards) == SelectSeq(cards, LAMBDA c : c.active = TRUE)

\* lines 220-240: the history grid of a month as the editor shows it
history_view(cards, tx, month) ==
    LET active == active_cards(cards)
        ids == Column(active, "card_id")
        names == Column(active, "card_name")
        tx_view == SelectSeq(tx, LAMBDA t : astype_str(t.month) = Str(month))
    IN [i \in 1..Len(tx_view) |->
          [tx_id |-> tx_view[i].tx_id,
           date |-> tx_view[i].date,
           card |-> IF DictHas(ids, tx_view[i].card_id)
                    THEN DictGet(ids, names, tx_view[i].card_id)
                    ELSE card_id_astype_str(tx_view[i].card_id),
           item |-> tx_view[i].item,
           amount |-> to_int(tx_view[i].amount),
           delete |-> FALSE]]

\* lines 261-287: the rows to write for the edited grid, or the stop when a
\* date comes back as None
reconcile(cards, edited) ==
    LET active == active_cards(cards)
        ids == Column(active, "card_id")
        names == Column(active, "card_name")
        kept == SelectSeq(edited, LAMBDA e : e.delete = FALSE)
        dates == [i \in 1..Len(kept) |-> normalize_date(kept[i].date)]
    IN IF \E i \in 1..Len(kept) : dates[i] = None
       THEN [stopped |-> TRUE, rows |-> <<>>]
       ELSE [stopped |-> FALSE,
             rows |-> [i \in 1..Len(kept) |->
               [tx_id |-> kept[i].tx_id,
                date |-> dates[i],
                month |-> Str(Prefix(dates[i], 7)),
                card_id |-> IF DictHas(names, kept[i].card)
                            THEN DictGet(names, ids, kept[i].card)
                            ELSE NaN,
                amount |-> Num(kept[i].amount),
                item |-> kept[i].item]]]

\* replace_month without the retention rule of line 300
replace_month_no_cleanup(tx, month, to_write, allowed) ==
    SelectSeq(month_astype_str(tx), LAMBDA t : t.month # Str(month)) \o to_write

\* lines 200-204 with the amount test dropped
add_accepted_any_amount(amount, m, allowed) ==
    \E i \in 1..Len(allowed) : allowed[i] = m

\* lines 200-204: the add form's two checks
add_accepted(amount, m, allowed) ==
    amount # 0 /\ \E i \in 1..Len(allowed) : allowed[i] = m

\* lines 290-300: the month's rows replaced by the reconciled ones, then
\* the retention rule
replace_month(tx, month, to_write, allowed) ==
    LET tx_all == SelectSeq(month_astype_str(tx), LAMBDA t : t.month # Str(month))
    IN cleanup_tx(tx_all \o to_write, allowed)

(* holidays.country_holidays("KR", years=[year]): the public holidays of the
   year as (month, day, name).  The table lists the fixed-date holidays and,
   for the years the model reaches, Seollal and Chuseok with their adjacent
   days and Buddha's Birthday. *)
FixedHolidays ==
    { <<1, 1, "New Year's Day">>, <<3, 1, "Independence Movement Day">>,
      <<5, 5, "Children's Day">>, <<6, 6, "Memorial Day">>,
      <<8, 15, "Liberation Day">>, <<10, 3, "National Foundation Day">>,
      <<10, 9, "Hangul Day">>, <<12, 25, "Christmas Day">> }

LunarHolidays(year) ==
    CASE year = 2022 ->
           { <<1, 31, "The day preceding Korean New Year">>,
             <<2, 1, "Korean New Year">>,
             <<2, 2, "The second day of Korean New Year">>,
             <<5, 8, "Buddha's Birthday">>,
             <<9, 9, "The day preceding Chuseok">>, <<9, 10, "Chuseok">>,
             <<9, 11, "The second day of Chuseok">> }
      [] year = 2023 ->
           { <<1, 21, "The day preceding Korean New Year">>,
             <<1, 22, "Korean New Year">>,
             <<1, 23, "The second day of Korean New Year">>,
             <<5, 27, "Buddha's Birthday">>,
             <<9, 28, "The day preceding Chuseok">>, <<9, 29, "Chuseok">>,
             <<9, 30, "The second day of Chuseok">> }
      [] year = 2024 ->
           { <<2, 9, "The day preceding Korean New Year">>,
             <<2, 10, "Korean New Year">>,
             <<2, 11, "The second day of Korean New Year">>,
             <<5, 15, "Buddha's Birthday">>,
             <<9, 16, "The day preceding Chuseok">>, <<9, 17, "Chuseok">>,
             <<9, 18, "The second day of Chuseok">> }
      [] year = 2025 ->
           { <<1, 28, "The day preceding Korean New Year">>,
             <<1, 29, "Korean New Year">>,
             <<1, 30, "The second day of Korean New Year">>,
             <<10, 5, "The day preceding Chuseok">>, <<10, 6, "Chuseok">>,
             <<10, 7, "The second day of Chuseok">> }
      [] year = 2026 ->
           { <<2, 16, "The day preceding Korean New Year">>,
             <<2, 17, "Korean New Year">>,
             <<2, 18, "The second day of Korean New Year">>,
             <<5, 24, "Buddha's Birthday">>,
             <<9, 24, "The day preceding Chuseok">>, <<9, 25, "Chuseok">>,
             <<9, 26, "The second day of Chuseok">> }
      [] OTHER -> {}

country_holidays_KR(year) == FixedHolidays \cup LunarHolidays(year)

\* the three reasons: public holiday with its name, weekend, business day
Holiday(name) == <<"holiday", name>>
Weekend == <<"weekend">>
BusinessDay == <<"business day">>

\* get_month_end_info that flags weekends only
get_month_end_info_weekend_only(month) ==
    LET parts == Split(month, "-")
        year == ParseInt(parts[1])
        mon == ParseInt(parts[2])
        last_day == monthrange(year, mon)
        end_dt == date(year, mon, last_day)
        kr_holidays == country_holidays_KR(year)
        is_weekend == weekday(end_dt) >= 5
        is_holiday == \E h \in kr_holidays : h[1] = mon /\ h[2] = last_day
        reason == IF is_holiday
                  THEN Holiday((CHOOSE h \in kr_holidays :
                                   h[1] = mon /\ h[2] = last_day)[3])
                  ELSE IF is_weekend THEN Weekend ELSE BusinessDay
    IN [end_dt |-> end_dt, is_shift_risk |-> is_weekend, reason |-> reason]

get_month_end_info(month) ==
    LET parts == Split(month, "-")
        year == ParseInt(parts[1])
        mon == ParseInt(parts[2])
        last_day == monthrange(year, mon)
        end_dt == date(year, mon, last_day)
        kr_holidays == country_holidays_KR(year)
        is_weekend == weekday(end_dt) >= 5
        is_holiday == \E h \in kr_holidays : h[1] = mon /\ h[2] = last_day
        reason == IF is_holiday
                  THEN Holiday((CHOOSE h \in kr_holidays :
                                   h[1] = mon /\ h[2] = last_day)[3])
                  ELSE IF is_weekend THEN Weekend ELSE BusinessDay
    IN [end_dt |-> end_dt, is_shift_risk |-> (is_weekend \/ is_holiday),
        reason |-> reason]

----------------------------------------------------------------------------
(* SpecWindow: one run of the script's date-dependent part, lines 149-150
   and 163-164, for every evaluation date of the modelled years. *)

Dates == { date(y, m, d) : y \in Years, m \in 1..12, d \in 1..31 }

InitWindow ==
    /\ today \in { d \in Dates : IsDate(d.year, d.month, d.day) }
    /\ months = Unused
    /\ sel_month = Unused
    /\ month_end = Unused
    /\ tx_df = Unused /\ tx_df_clean = Unused /\ cards_df = Unused
    /\ dash = Unused
    /\ cards_ws = Unused /\ tx_ws = Unused
    /\ last = Unused /\ written = Unused
    /\ pc = Unused /\ pending = Unused /\ seen = Unused

\* months = allowed_months(today)
ComputeMonths ==
    /\ months = Unused
    /\ months' = allowed_months(today)
    /\ UNCHANGED <<today, sel_month, month_end>>
    /\ UNCHANGED <<frameVars, sessionVars, storeVars>>

\* the dashboard tab's month selector and its month-end banner
SelectMonth ==
    /\ months # Unused
    /\ \E i \in 1..Len(months) :
          /\ sel_month' = months[i]
          /\ month_end' = get_month_end_info(months[i])
    /\ UNCHANGED <<today, months>>
    /\ UNCHANGED <<frameVars, sessionVars, storeVars>>

NextWindow == ComputeMonths \/ SelectMonth

SpecWindow == InitWindow /\ [][NextWindow]_vars

----------------------------------------------------------------------------
(* SpecCleanup: cleanup_tx applied to transaction frames whose month cells
   are texts inside and outside the window, or numbers. *)

CleanupDates == { date(2025, 1, 15), date(2025, 6, 10) }

MonthCells ==
    { Str(<<"2", "0", "2", "4", "-", "1", "2">>),
      Str(<<"2", "0", "2", "5", "-", "0", "6">>),
      Str(<<"2", "0", "2", "5", "-", "0", "7">>),
      Str(<<"2", "0", "2", "5", "-", "0", "9">>),
      Num(202506) }

\* a transaction row; the identifier is the row's position in the input
CleanupRow(i, m) ==
    [tx_id |-> i, date |-> <<>>, month |-> m, card_id |-> <<"c", "1">>,
     amount |-> Num(1000), item |-> <<>>]

CleanupFrames ==
    UNION { { [i \in 1..n |-> CleanupRow(i, f[i])] : f \in [1..n -> MonthCells] }
            : n \in 0..MaxRows }

InitCleanup ==
    /\ today \in CleanupDates
    /\ months = allowed_months(today)
    /\ tx_df \in CleanupFrames
    /\ tx_df_clean = Unused
    /\ last = Unused
    /\ sel_month = Unused /\ month_end = Unused
    /\ cards_df = Unused /\ dash = Unused
    /\ cards_ws = Unused /\ tx_ws = Unused
    /\ written = Unused
    /\ pc = Unused /\ pending = Unused /\ seen = Unused

\* tx_df_clean = cleanup_tx(tx_df, months); the call casts the month column
\* of the caller's frame in place
Cleanup ==
    /\ tx_df_clean = Unused
    /\ tx_df_clean' = cleanup_tx(tx_df, months)
    /\ tx_df' = IF Len(tx_df) = 0 THEN tx_df ELSE month_astype_str(tx_df)
    /\ last' = [op |-> "cleanup", input |-> tx_df, again |-> FALSE]
    /\ UNCHANGED <<today, months, sel_month, month_end, cards_df, dash>>
    /\ UNCHANGED <<cards_ws, tx_ws, written, storeVars>>

\* cleanup_tx applied to its own result
CleanupAgain ==
    /\ tx_df_clean # Unused
    /\ last.again = FALSE
    /\ tx_df_clean' = cleanup_tx(tx_df_clean, months)
    /\ tx_df' = IF Len(tx_df_clean) = 0 THEN tx_df_clean
                 ELSE month_astype_str(tx_df_clean)
    /\ last' = [op |-> "cleanup", input |-> tx_df_clean, again |-> TRUE]
    /\ UNCHANGED <<today, months, sel_month, month_end, cards_df, dash>>
    /\ UNCHANGED <<cards_ws, tx_ws, written, storeVars>>

NextCleanup == Cleanup \/ CleanupAgain

SpecCleanup == InitCleanup /\ [][NextCleanup]_vars

----------------------------------------------------------------------------
(* Claims about the retention cleanup *)

\* the positions of T whose month cell is one of the texts of W
KeptPositions(T, W) ==
    { i \in 1..Len(T) : \E k \in 1..Len(W) : T[i].month = Str(W[k]) }

\* R is T restricted to the positions P, in T's order
IsRestriction(R, T, P) ==
    /\ Len(R) = Cardinality(P)
    /\ \A j \in 1..Len(R) :
          \E i \in P : /\ R[j] = T[i]
                       /\ Cardinality({ h \in P : h < i }) = j - 1

(* C2: cleanup_tx(T, W) is exactly the rows of T whose month field is a
   member of W, unaltered and in their original relative order, and
   applying cleanup_tx to its own result returns that result. *)
C2_CleanupKeepsWindowRows ==
    tx_df_clean # Unused =>
        /\ IsRestriction(tx_df_clean, last.input,
                         KeptPositions(last.input, months))
        /\ (last.again => tx_df_clean = last.input)
        /\ cleanup_tx(tx_df_clean, months) = tx_df_clean

\* a three-row frame whose middle row is outside the window and is dropped
C2_Witness ==
    /\ tx_df_clean # Unused
    /\ last.again = FALSE
    /\ Len(last.input) = 3
    /\ Len(tx_df_clean) = 2
    /\ tx_df_clean[1].tx_id = 1
    /\ tx_df_clean[2].tx_id = 3
    /\ tx_df_clean[2].month = Str(months[3])

----------------------------------------------------------------------------
(* SpecDash: the dashboard tab (lines 162-173) over card tables and
   transaction frames drawn from small sets. *)

DashToday == date(2025, 6, 10)

CardId(i) == <<"c", Digits[i + 1]>>

\* the second and later cards share a display name
CardNameAt(i) == IF i = 1 THEN <<"B">> ELSE <<"A">>

\* monthly target and fixed cost: effective targets 1000, 200 and 0
TargetCells == { <<Num(1000), Num(0)>>, <<Num(200), Num(0)>>, <<Num(200), Num(500)>> }

DashCard(i, tf, a) ==
    [card_id |-> CardId(i), card_name |-> CardNameAt(i),
     monthly_target |-> tf[1], fixed_cost |-> tf[2], active |-> a]

DashCardTables ==
    UNION { { [i \in 1..n |-> DashCard(i, f[i][1], f[i][2])]
              : f \in [1..n -> TargetCells \X BOOLEAN] }
            : n \in 0..MaxCards }

\* month and amount cells of a transaction
DashTxCells ==
    { <<<<"2", "0", "2", "5", "-", "0", "6">>, Num(100)>>,
      <<<<"2", "0", "2", "5", "-", "0", "6">>, Num(1000)>>,
      <<<<"2", "0", "2", "5", "-", "0", "6">>, Num(0 - 300)>>,
      <<<<"2", "0", "2", "5", "-", "0", "6">>, Str(<<"x">>)>>,
      <<<<"2", "0", "2", "5", "-", "0", "5">>, Num(100)>> }

DashTx(i, c, ma) ==
    [tx_id |-> i, date |-> ma[1] \o <<"-", "0", "1">>, month |-> Str(ma[1]),
     card_id |-> CardId(c), amount |-> ma[2], item |-> <<>>]

DashTxFrames ==
    UNION { { [i \in 1..n |-> DashTx(i, f[i][1], f[i][2])]
              : f \in [1..n -> (1..2) \X DashTxCells] }
            : n \in 0..MaxDashTx }

InitDash ==
    /\ today = DashToday
    /\ months = allowed_months(today)
    /\ cards_df \in DashCardTables
    /\ tx_df \in DashTxFrames
    /\ dash = Unused
    /\ sel_month = Unused /\ month_end = Unused
    /\ tx_df_clean = Unused /\ last = Unused
    /\ cards_ws = Unused /\ tx_ws = Unused
    /\ written = Unused
    /\ pc = Unused /\ pending = Unused /\ seen = Unused

\* the dashboard tab: month selector, month-end banner, dashboard table
Dashboard ==
    /\ dash = Unused
    /\ \E i \in 1..2 :
          /\ sel_month' = months[i]
          /\ month_end' = get_month_end_info(months[i])
          /\ dash' = compute_dashboard(cards_df, tx_df, months[i])
    /\ UNCHANGED <<today, months, tx_df, tx_df_clean, cards_df>>
    /\ UNCHANGED <<sessionVars, storeVars>>

NextDash == Dashboard

SpecDash == InitDash /\ [][NextDash]_vars

----------------------------------------------------------------------------
(* Claims about the dashboard *)

\* the integer a thousands-separated text shows
ParseGrouped(s) ==
    LET digits == SelectSeq(s, LAMBDA c : c \in DigitSet)
    IN IF Len(s) > 0 /\ s[1] = "-" THEN 0 - ParseInt(digits) ELSE ParseInt(digits)

\* the amount of a transaction: its number, 0 when the cell is no number
RefAmount(t) == IF t.amount.t = "int" THEN t.amount.v ELSE 0

\* the sum of the amounts of the transactions at the positions P
RECURSIVE RefSum(_, _)
RefSum(tx, P) ==
    IF P = {} THEN 0
    ELSE LET i == CHOOSE i \in P : TRUE
         IN RefAmount(tx[i]) + RefSum(tx, P \ {i})

Max0(x) == IF x > 0 THEN x ELSE 0

\* the dashboard row of a card by the reference definition
RefDashRow(c, tx, M) ==
    LET spent == RefSum(tx, { i \in 1..Len(tx) :
                                 tx[i].card_id = c.card_id /\ tx[i].month = Str(M) })
        eff == Max0(c.monthly_target.v - c.fixed_cost.v)
    IN [card_name |-> c.card_name, spent |-> spent, effective |-> eff,
        remaining |-> Max0(eff - spent), met |-> (spent >= eff)]

\* what a row of the dashboard shows
ShownDashRow(r) ==
    [card_name |-> r.card_name, spent |-> ParseGrouped(r.spent_fmt),
     effective |-> ParseGrouped(r.effective_fmt),
     remaining |-> ParseGrouped(r.remaining_fmt), met |-> (r.status = Met)]

RECURSIVE SumShownSpent(_)
SumShownSpent(rows) ==
    IF Len(rows) = 0 THEN 0
    ELSE ParseGrouped(rows[1].spent_fmt) + SumShownSpent(Tail(rows))

ActivePositions == { i \in 1..Len(cards_df) : cards_df[i].active }

(* C4, amended: with unique card ids, compute_dashboard yields exactly one
   row per active card and none for an inactive card, each row showing the
   reference values: spent is the sum of the amounts of the card's
   transactions of the month (0 if none), effective target is
   max(0, monthly_target - fixed_cost), remaining is
   max(0, effective target - spent), status is met iff spent >= effective
   target, so that effective target 0 is met whenever spent is not
   negative; effective target and remaining are never negative and the
   spent column sums to the month's amounts of the active cards. *)
C4_DashboardRowsMatchReference ==
    dash # Unused =>
        /\ Len(dash) = Cardinality(ActivePositions)
        /\ \A i \in ActivePositions :
              LET ref == RefDashRow(cards_df[i], tx_df, sel_month)
              IN Cardinality({ j \in 1..Len(dash) : ShownDashRow(dash[j]) = ref })
                 = Cardinality({ k \in ActivePositions :
                                   RefDashRow(cards_df[k], tx_df, sel_month) = ref })
        /\ \A j \in 1..Len(dash) :
              /\ ParseGrouped(dash[j].effective_fmt) >= 0
              /\ ParseGrouped(dash[j].remaining_fmt) >= 0
              /\ (/\ ParseGrouped(dash[j].effective_fmt) = 0
                  /\ ParseGrouped(dash[j].spent_fmt) >= 0
                  => dash[j].status = Met)
        /\ SumShownSpent(dash)
              = RefSum(tx_df, { k \in 1..Len(tx_df) :
                    /\ tx_df[k].month = Str(sel_month)
                    /\ \E i \in ActivePositions :
                          cards_df[i].card_id = tx_df[k].card_id })

\* two active cards, one fully offset by its fixed cost, the other with two
\* transactions of the month, and nothing else
C4_Witness ==
    /\ dash # Unused
    /\ Len(cards_df) = 2
    /\ Len(dash) = 2
    /\ Len(tx_df) = 2
    /\ \A i \in 1..2 : tx_df[i].card_id = CardId(1) /\ tx_df[i].month = Str(sel_month)
    /\ \E j \in 1..2 : ShownDashRow(dash[j]) =
          [card_name |-> <<"B">>, spent |-> 1100, effective |-> 1000,
           remaining |-> 0, met |-> TRUE]
    /\ \E j \in 1..2 : ShownDashRow(dash[j]) =
          [card_name |-> <<"A">>, spent |-> 0, effective |-> 0,
           remaining |-> 0, met |-> TRUE]

(* C4 as stated: the above, and a row whose effective target is 0 is always
   met. *)
C4_EffectiveTargetZeroAlwaysMet ==
    dash # Unused =>
        /\ C4_DashboardRowsMatchReference
        /\ \A j \in 1..Len(dash) :
              ParseGrouped(dash[j].effective_fmt) = 0 => dash[j].status = Met

\* row a may come before row b: status, then remaining as an integer, then
\* card name
RefRowOrder(a, b) ==
    \/ TextLess(a.status, b.status)
    \/ /\ a.status = b.status
       /\ \/ ParseGrouped(a.remaining_fmt) < ParseGrouped(b.remaining_fmt)
          \/ /\ ParseGrouped(a.remaining_fmt) = ParseGrouped(b.remaining_fmt)
             /\ ~TextLess(b.card_name, a.card_name)

(* C5: the rows of the dashboard are ordered by status ascending, then by
   remaining amount ascending, the remaining amount compared as the integer
   it is, then by card name ascending. *)
C5_DashboardSortedByIntegerRemaining ==
    dash # Unused =>
        \A i \in 1..Len(dash) : \A j \in 1..Len(dash) :
            i < j => RefRowOrder(dash[i], dash[j])

----------------------------------------------------------------------------
(* Spec: one session of the transaction-entry tab with a fixed evaluation
   date.  Every interaction reruns the script: the sheets are read and
   cleaned up (lines 127-156) before the handler of the interaction runs,
   and the user interacts with a page that a run of the script rendered.
   The cards worksheet does not change during the session. *)

SessionToday == date(2025, 6, 10)

Card(id, name, a) ==
    [card_id |-> id, card_name |-> name, monthly_target |-> Num(300000),
     fixed_cost |-> Num(0), active |-> a]

\* two active cards share the name A, one active card is named C alone, and
\* one card is inactive
SessionCards ==
    << Card(CardId(1), <<"A">>, TRUE), Card(CardId(2), <<"A">>, TRUE),
       Card(CardId(3), <<"B">>, FALSE), Card(CardId(4), <<"C">>, TRUE) >>

Tx(id, d, m, c, a) ==
    [tx_id |-> id, date |-> d, month |-> m, card_id |-> c, amount |-> a,
     item |-> <<>>]

\* rows the tx worksheet may hold when the session starts: a row of the
\* inactive card, a row older than the window, a row whose month field is
\* stale, rows of active cards
RowInactiveCard ==
    Tx(1, <<"2", "0", "2", "5", "-", "0", "6", "-", "0", "1">>,
       Str(<<"2", "0", "2", "5", "-", "0", "6">>), CardId(3), Num(500))
RowOutOfWindow ==
    Tx(2, <<"2", "0", "2", "5", "-", "0", "3", "-", "0", "1">>,
       Str(<<"2", "0", "2", "5", "-", "0", "3">>), CardId(4), Num(500))
RowStaleMonth ==
    Tx(3, <<"2", "0", "2", "5", "-", "0", "6", "-", "2", "0">>,
       Str(<<"2", "0", "2", "5", "-", "0", "5">>), CardId(4), Num(500))
RowSharedName ==
    Tx(4, <<"2", "0", "2", "5", "-", "0", "6", "-", "0", "2">>,
       Str(<<"2", "0", "2", "5", "-", "0", "6">>), CardId(1), Num(500))
RowOwnName ==
    Tx(5, <<"2", "0", "2", "5", "-", "0", "6", "-", "0", "3">>,
       Str(<<"2", "0", "2", "5", "-", "0", "6">>), CardId(4), Num(500))

InitialTables ==
    { <<>>,
      <<RowInactiveCard, RowOutOfWindow>>,
      <<RowStaleMonth, RowSharedName>>,
      <<RowInactiveCard, RowOwnName>> }

\* str(uuid.uuid4()): an identifier no row of the sheet carries
uuid4(ws) ==
    CHOOSE u \in 6..(6 + Len(ws.rows)) :
        \A i \in 1..Len(ws.rows) : ws.rows[i].tx_id # u

\* inputs of the add form
AddAmounts == { 0 - 1000, 0, 1000 }
AddDates == { date(2025, 6, 7), date(2025, 9, 1) }

\* texts typed into the date column of the history grid
EditDates ==
    { <<"2", "0", "2", "5", "/", "0", "7", "/", "0", "3">>,
      <<"2", "0", "2", "5", "-", "0", "9", "-", "0", "1">>,
      <<"2", "0", "2", "5", "-", "0", "2", "-", "3", "0">>,
      <<>> }

\* what the user does to one row of the grid
RowEdits(names) ==
    { [kind |-> "keep", v |-> <<>>], [kind |-> "delete", v |-> <<>>] }
    \cup { [kind |-> "date", v |-> t] : t \in EditDates }
    \cup { [kind |-> "card", v |-> names[i]] : i \in 1..Len(names) }

ApplyEdit(row, e) ==
    CASE e.kind = "keep" -> row
      [] e.kind = "delete" -> [row EXCEPT !.delete = TRUE]
      [] e.kind = "date" -> [row EXCEPT !.date = e.v]
      [] e.kind = "card" -> [row EXCEPT !.card = e.v]

\* the last run of the script: the interaction, the sheet it found and the
\* user's input
NoOp == [op |-> "none", before |-> <<>>, sel |-> <<>>, edited |-> <<>>,
         amount |-> 0, d |-> <<>>, ops |-> 0]

Init ==
    /\ today = SessionToday
    /\ months = allowed_months(today)
    /\ cards_ws = SessionCards
    /\ tx_ws \in { [header |-> TxColumns, rows |-> t] : t \in InitialTables }
    /\ last = NoOp
    /\ written = {}
    /\ sel_month = Unused /\ month_end = Unused
    /\ tx_df = Unused /\ tx_df_clean = Unused /\ cards_df = Unused
    /\ dash = Unused
   
    /\ pc = Unused /\ pending = Unused /\ seen = Unused

RowIds(rows) == { rows[i].tx_id : i \in 1..Len(rows) }

\* a run of the script that renders the page: the first one, and the rerun
\* after an interaction
PageLoad ==
    /\ \E s \in { startup(tx_ws, months) } :
          /\ tx_ws' = s.tx_ws
          /\ written' = written \cap RowIds(s.tx_ws.rows)
          /\ last' = [NoOp EXCEPT !.op = "load", !.before = tx_ws,
                                   !.ops = last.ops]
    /\ UNCHANGED <<windowVars, frameVars, cards_ws, storeVars>>

\* the add form is submitted, lines 199-211
AddSubmit ==
    /\ last.op = "load"
    /\ last.ops < MaxOps
    /\ \E s \in { startup(tx_ws, months) },
          active \in { active_cards(cards_ws) } :
          /\ Len(active) > 0
          /\ \E card_map \in { [keys |-> Column(active, "card_name"),
                                 values |-> Column(active, "card_id")] } :
             \E card_name \in { card_map.keys[k] : k \in 1..Len(card_map.keys) },
                amount \in AddAmounts, d \in AddDates :
               \E m \in { ym([d EXCEPT !.day = 1]) }, u \in { uuid4(s.tx_ws) } :
                 \E accepted \in { add_accepted(amount, m, months) } :
                    /\ tx_ws' =
                         IF accepted
                         THEN append_row(s.tx_ws,
                                  Tx(u, isoformat(d), Str(m),
                                     DictGet(card_map.keys, card_map.values, card_name),
                                     Num(amount)))
                         ELSE s.tx_ws
                    /\ written' = (written \cap RowIds(s.tx_ws.rows))
                                    \cup (IF accepted THEN {u} ELSE {})
                    /\ last' = [NoOp EXCEPT !.op = "add", !.before = tx_ws,
                                             !.amount = amount, !.d = d,
                                             !.ops = last.ops + 1]
    /\ UNCHANGED <<windowVars, frameVars, cards_ws, storeVars>>

\* the history grid's save button, lines 259-306
HistorySave ==
    /\ last.op = "load"
    /\ last.ops < MaxOps
    /\ Len(active_cards(cards_ws)) > 0
    /\ \E s \in { startup(tx_ws, months) },
          options \in { DictKeys(Column(active_cards(cards_ws), "card_name")) },
          sel_month_tx \in { months[i] : i \in 1..3 } :
         \E view \in { history_view(cards_ws, s.tx_df, sel_month_tx) } :
            /\ Len(view) > 0
            /\ \E e \in [1..Len(view) -> RowEdits(options)] :
                 \E edited \in { [j \in 1..Len(view) |-> ApplyEdit(view[j], e[j])] } :
                  \E to_write \in { reconcile(cards_ws, edited) } :
                   \E tx_all \in { replace_month(s.tx_df, sel_month_tx,
                                                 to_write.rows, months) } :
                       /\ tx_ws' = IF to_write.stopped THEN s.tx_ws
                                    ELSE update_ws_from_df(s.tx_ws, tx_all)
                       /\ written' =
                            IF to_write.stopped
                            THEN written \cap RowIds(s.tx_ws.rows)
                            ELSE (written \cap RowIds(tx_all)) \cup
                                 (RowIds(to_write.rows) \cap RowIds(tx_all))
                       /\ last' = [NoOp EXCEPT !.op = "save", !.before = tx_ws,
                                                !.sel = sel_month_tx,
                                                !.edited = edited,
                                                !.ops = last.ops + 1]
    /\ UNCHANGED <<windowVars, frameVars, cards_ws, storeVars>>

Next == PageLoad \/ AddSubmit \/ HistorySave

Spec == Init /\ [][Next]_vars

----------------------------------------------------------------------------
(* SpecStore: the two store calls of update_ws_from_df, one at a time, in
   the startup cleanup of lines 152-156.  A store call may raise, which ends
   the run of the script (no handler catches it), and another session may
   read the sheet at any moment. *)

StoreTables ==
    UNION { { f \in [1..n -> {RowInactiveCard, RowOutOfWindow, RowStaleMonth,
                              RowSharedName, RowOwnName}] :
                \A i \in 1..n : \A j \in 1..n : i < j => f[i].tx_id < f[j].tx_id }
            : n \in 0..MaxRows }

InitStore ==
    /\ today = SessionToday
    /\ months = allowed_months(today)
    /\ cards_ws = SessionCards
    /\ tx_ws \in { [header |-> TxColumns, rows |-> t] : t \in StoreTables }
    /\ last = NoOp
    /\ pc = "idle"
    /\ pending = <<>>
    /\ seen = [read |-> FALSE, rows |-> <<>>]
    /\ written = Unused
    /\ sel_month = Unused /\ month_end = Unused
    /\ tx_df = Unused /\ tx_df_clean = Unused /\ cards_df = Unused
    /\ dash = Unused

\* lines 153-155: the cleanup dropped rows, update_ws_from_df is entered
CleanupBegins ==
    /\ pc = "idle"
    /\ \E df \in { ws_to_df(tx_ws) } :
         \E clean \in { cleanup_tx(df, months) } :
            /\ Len(clean) # Len(df)
            /\ pending' = clean
            /\ last' = [NoOp EXCEPT !.op = "overwrite", !.before = tx_ws]
            /\ pc' = "clear"
    /\ UNCHANGED <<windowVars, frameVars, cards_ws, tx_ws, written, seen>>

\* line 45
Clear ==
    /\ pc = "clear"
    /\ tx_ws' = ws_clear(tx_ws)
    /\ pc' = "update"
    /\ UNCHANGED <<windowVars, frameVars, cards_ws, last, written, pending, seen>>

\* line 46
Update ==
    /\ pc = "update"
    /\ tx_ws' = ws_update(tx_ws, TxColumns, pending)
    /\ pc' = "done"
    /\ UNCHANGED <<windowVars, frameVars, cards_ws, last, written, pending, seen>>

\* the store call about to be made raises
StoreCallRaises ==
    /\ pc \in {"clear", "update"}
    /\ pc' = "raised"
    /\ UNCHANGED <<windowVars, frameVars, sessionVars, pending, seen>>

\* another session's script reads the sheet (line 128)
OtherSessionReads ==
    /\ seen' = [read |-> TRUE, rows |-> ws_to_df(tx_ws)]
    /\ UNCHANGED <<windowVars, frameVars, sessionVars, pc, pending>>

NextStore ==
    CleanupBegins \/ Clear \/ Update \/ StoreCallRaises \/ OtherSessionReads

SpecStore == InitStore /\ [][NextStore]_vars

(* C7: the full-table overwrite is all-or-nothing: at every point during and
   after it, also when a store call raises or another session reads in
   between, the stored table is the complete old content or the complete
   new content, header and all rows, never an empty or partial table. *)
C7_OverwriteIsAllOrNothing ==
    last.op = "overwrite" =>
        /\ \/ tx_ws = last.before
           \/ tx_ws = [header |-> TxColumns, rows |-> pending]
        /\ (seen.read => seen.rows \in {last.before.rows, pending})

----------------------------------------------------------------------------
(* Claims about the session *)

\* s is a YYYY-MM-DD text
IsIsoDate(s) ==
    /\ Len(s) = 10
    /\ s[5] = "-" /\ s[8] = "-"
    /\ IsDigits(SubSeq(s, 1, 4))
    /\ IsDigits(SubSeq(s, 6, 7))
    /\ IsDigits(SubSeq(s, 9, 10))

\* the text normalizes to a YYYY-MM-DD date
Normalizes(s) == IsIsoDate(normalize_date(s))

InWindow(m) == \E i \in 1..Len(months) : months[i] = m

\* the rows of the sheet the last interaction found
Before == last.before.rows

After == tx_ws.rows

\* the grid the last save was pressed on, as the page showed it
ShownView == history_view(cards_ws, Before, last.sel)

(* C1: a history save is all-or-nothing on bad dates: if any row of the
   edited grid that is not flagged for deletion has a date that does not
   normalize to YYYY-MM-DD, nothing is written and the transaction table
   after the save is the table before it. *)
C1_BadDateWritesNothing ==
    (/\ last.op = "save"
     /\ \E j \in 1..Len(last.edited) :
           /\ last.edited[j].delete = FALSE
           /\ ~Normalizes(last.edited[j].date))
    => tx_ws = last.before

(* C6: an add-form submission with a zero or negative amount writes nothing:
   the transaction table is unchanged. *)
C6_NonPositiveAmountRejected ==
    last.op = "add" /\ last.amount <= 0 => tx_ws = last.before

(* C6, amended: an add-form submission with a zero amount writes nothing; a
   negative amount with a date inside the window is accepted and appended
   as one row carrying that amount. *)
C6_ZeroAmountRejected ==
    last.op = "add" =>
        /\ (last.amount = 0 => tx_ws = last.before)
        /\ (last.amount < 0 /\ InWindow(ym(last.d)) =>
              /\ Len(After) = Len(Before) + 1
              /\ SubSeq(After, 1, Len(Before)) = Before
              /\ After[Len(After)].amount = Num(last.amount))

\* a zero amount with a date inside the window, on a sheet that has rows
C6_Witness ==
    /\ last.op = "add"
    /\ last.amount = 0
    /\ InWindow(ym(last.d))
    /\ Len(Before) > 0
    /\ tx_ws = last.before

(* C9: with a fixed evaluation date, after the first run of the script and
   any sequence of add submissions and history saves, every row of the
   stored table has its month in the window, and every row an add appended
   or a save reconciled has as month the first 7 characters of its date; a
   row whose date was edited to a month outside the window is absent after
   a save that was not stopped, and an add with a date outside the window
   writes nothing. *)
C9_StoredRowsInsideWindow ==
    last.op # "none" =>
        /\ \A i \in 1..Len(After) :
              /\ After[i].month.t = "str"
              /\ InWindow(After[i].month.v)
              /\ (After[i].tx_id \in written =>
                    After[i].month = Str(Prefix(After[i].date, 7)))
        /\ (last.op = "save" =>
              \A j \in 1..Len(last.edited) :
                 (/\ last.edited[j].delete = FALSE
                  /\ Normalizes(last.edited[j].date)
                  /\ ~InWindow(Prefix(normalize_date(last.edited[j].date), 7))
                  /\ \A k \in 1..Len(last.edited) :
                        \/ last.edited[k].delete
                        \/ normalize_date(last.edited[k].date) # None)
                 => last.edited[j].tx_id \notin RowIds(After))
        /\ (last.op = "add" /\ ~InWindow(ym(last.d)) => tx_ws = last.before)

\* a save of two rows, one moved to September: it is gone, the other stays
C9_Witness ==
    /\ last.op = "save"
    /\ Len(last.edited) = 2
    /\ last.edited[1].delete = FALSE
    /\ last.edited[1].date = <<"2", "0", "2", "5", "-", "0", "9", "-", "0", "1">>
    /\ last.edited[2] = ShownView[2]
    /\ last.edited[1].tx_id \in RowIds(Before)
    /\ last.edited[1].tx_id \notin RowIds(After)
    /\ last.edited[2].tx_id \in RowIds(After) \cap written

(* C10: a history save keeps the card identifiers it was not asked to
   change: every transaction of the saved month that is not flagged for
   deletion and whose card cell was left as shown has after the save the
   card_id it had before, also when its card is inactive or shares its name
   with another active card; rows of other months keep all their fields. *)
C10_SavePreservesCardIds ==
    last.op = "save" =>
        /\ \A j \in 1..Len(last.edited) :
              (last.edited[j].delete = FALSE /\ last.edited[j].card = ShownView[j].card)
              => \A a \in 1..Len(After) : \A b \in 1..Len(Before) :
                    (After[a].tx_id = last.edited[j].tx_id
                     /\ Before[b].tx_id = last.edited[j].tx_id)
                    => After[a].card_id = Before[b].card_id
        /\ \A b \in 1..Len(Before) :
              Before[b].month # Str(last.sel)
              => \E a \in 1..Len(After) : After[a] = Before[b]

----------------------------------------------------------------------------
(* Claims about the window and the month end *)

\* s is a YYYY-MM text
IsYearMonth(s) ==
    /\ Len(s) = 7
    /\ s[5] = "-"
    /\ IsDigits(SubSeq(s, 1, 4))
    /\ IsDigits(SubSeq(s, 6, 7))
    /\ ParseInt(SubSeq(s, 6, 7)) \in 1..12

\* the number of the calendar month a YYYY-MM text names
MonthIndex(s) == 12 * ParseInt(SubSeq(s, 1, 4)) + ParseInt(SubSeq(s, 6, 7)) - 1

IsWindowOf(w, d) ==
    /\ Len(w) = 3
    /\ \A i \in 1..3 : IsYearMonth(w[i])
    /\ MonthIndex(w[2]) = 12 * d.year + d.month - 1
    /\ MonthIndex(w[1]) = MonthIndex(w[2]) - 1
    /\ MonthIndex(w[3]) = MonthIndex(w[2]) + 1
    /\ Cardinality({w[1], w[2], w[3]}) = 3
    /\ (d.month = 1 =>
          w[1] = ZeroPad(Dec(d.year - 1), 4) \o <<"-", "1", "2">>)
    /\ (d.month = 12 =>
          w[3] = ZeroPad(Dec(d.year + 1), 4) \o <<"-", "0", "1">>)

(* C3: for every evaluation date, allowed_months is the triple previous
   month, month of the date, next month as YYYY-MM texts: three distinct
   consecutive calendar months, with the year rolling over in January and
   December, and the window of the date one month later is the same triple
   shifted by one month. *)
C3_WindowIsThreeConsecutiveMonths ==
    months # Unused =>
        /\ IsWindowOf(months, today)
        /\ LET later == allowed_months(relativedelta_months(today, 1))
           IN /\ later[1] = months[2]
              /\ later[2] = months[3]
              /\ IsYearMonth(later[3])
              /\ MonthIndex(later[3]) = MonthIndex(months[3]) + 1

\* the window of 15 January 2025 reaches back into 2024
C3_Witness ==
    /\ today = date(2025, 1, 15)
    /\ months = << <<"2", "0", "2", "4", "-", "1", "2">>,
                   <<"2", "0", "2", "5", "-", "0", "1">>,
                   <<"2", "0", "2", "5", "-", "0", "2">> >>

\* the length of a month, stated by cases
RefLastDay(y, m) ==
    IF m \in {4, 6, 9, 11} THEN 30
    ELSE IF m # 2 THEN 31
    ELSE IF y % 400 = 0 \/ (y % 4 = 0 /\ y % 100 # 0) THEN 29 ELSE 28

\* days from Saturday 1 January 2022 to the last day of month m of year y,
\* for y >= 2021
RECURSIVE RefDaysTo(_, _)
RefDaysTo(y, m) ==
    IF y = 2021 /\ m = 12 THEN 0 - 1
    ELSE IF m = 1 THEN RefDaysTo(y - 1, 12) + 31
    ELSE RefDaysTo(y, m - 1) + RefLastDay(y, m)

\* the last day of month m of year y is a Saturday or a Sunday
RefIsWeekend(y, m) == (RefDaysTo(y, m) % 7) \in {0, 1}

(* C8: for every year-month, get_month_end_info returns the last calendar
   day of the month, a flag that is true exactly when that day is a
   Saturday, a Sunday or a public holiday of the calendar, and as reason the
   holiday with its name whenever the day is a holiday (weekend or not),
   weekend when it is only a weekend, business day otherwise; 2025-02 gives
   2025-02-28, a Friday, business day, flag false. *)
C8_MonthEndInfo ==
    sel_month # Unused =>
        LET y == ParseInt(SubSeq(sel_month, 1, 4))
            m == ParseInt(SubSeq(sel_month, 6, 7))
            e == month_end.end_dt
            hol == { h \in country_holidays_KR(y) : h[1] = m /\ h[2] = e.day }
        IN /\ e = date(y, m, RefLastDay(y, m))
           /\ month_end.is_shift_risk = (RefIsWeekend(y, m) \/ hol # {})
           /\ (hol # {} => \E h \in hol : month_end.reason = Holiday(h[3]))
           /\ (hol = {} /\ RefIsWeekend(y, m) => month_end.reason = Weekend)
           /\ (hol = {} /\ ~RefIsWeekend(y, m) => month_end.reason = BusinessDay)
           /\ (sel_month = <<"2", "0", "2", "5", "-", "0", "2">> =>
                 /\ e = date(2025, 2, 28)
                 /\ weekday(e) = 4
                 /\ month_end.is_shift_risk = FALSE
                 /\ month_end.reason = BusinessDay)

\* 30 September 2023 is a Saturday and a holiday: the reason is the holiday
C8_Witness ==
    /\ sel_month = <<"2", "0", "2", "3", "-", "0", "9">>
    /\ month_end.end_dt = date(2023, 9, 30)
    /\ weekday(month_end.end_dt) = 5
    /\ month_end.is_shift_risk = TRUE
    /\ month_end.reason = Holiday("The second day of Chuseok")

====
